---- MODULE Spec2Model ----
(***************************************************************************)
(* Model of lib/src/remote/holepunch.c: the PSN session orchestrator       *)
(* (session_create, session_start, session_punch_hole), the websocket      *)
(* reader thread and the notification queue they share.                    *)
(*                                                                         *)
(* The caller thread and the reader thread are two processes; each action  *)
(* is one stretch of code between two points where the thread can block    *)
(* (a mutex, a condition variable, the network).  Results of HTTP          *)
(* requests, of socket system calls and of the push channel are inputs.    *)
(* The session-state bitmask is a set of bit names; notifications live in  *)
(* a heap of cells linked by `previous`, as in the source.  A read through *)
(* a pointer to a freed cell is undefined behaviour and is a choice among  *)
(* UBOutcomes.                                                             *)
(***************************************************************************)
EXTENDS Integers, Sequences, FiniteSets, TLC

\* ------------------------------------------------------------------ bounds
\* heap cells available for Notification structs
MaxNodes == 5
\* notifications allocated and not yet freed at any one time
MaxLive == 3
\* notifications session_create waits for (SESSION_CREATED and
\* MEMBER_CREATED) and notifications session_start waits for (MEMBER_CREATED
\* and CUSTOM_DATA1_UPDATED): the server pushes that many frames about each
CreateFrames == 2
StartFrames == 2
\* session messages the console sends (three for each port kind punched)
MsgFrames == 6
\* start_session POSTs after which the caller stops calling session_start
MaxStartPosts == 2
\* events of the environment that are not the nominal course: a frame that
\* is not the one the protocol calls for at that point (see NominalAt), a
\* failed HTTP request or system call, a broken connection, an expired wait
MaxFaults == 1
\* candidates in a console OFFER
MaxCands == 2
\* clock ticks in the timeout_ms of a wait
TimeoutTicks == 2
\* clock ticks in the 5 s between two pings
PingTicks == 2
\* clock ticks after which the heartbeat is no longer followed
MaxNow == 6
\* width in bits of the clock values (uint64_t in the code)
ClockBits == 4

MaxFrames == CreateFrames + StartFrames + MsgFrames

\* ------------------------------------------------------------ data model
NULL == 0
NodeIds == 1..MaxNodes

\* SessionState bits (SESSION_STATE_INIT is the empty mask)
SessionStates ==
  {"WS_OPEN", "CREATED", "STARTED", "CLIENT_JOINED", "DATA_SENT",
   "CONSOLE_JOINED", "CUSTOMDATA1_RECEIVED", "CTRL_OFFER_RECEIVED",
   "CTRL_OFFER_SENT", "CTRL_CONSOLE_ACCEPTED", "CTRL_CLIENT_ACCEPTED",
   "CTRL_ESTABLISHED", "DATA_OFFER_RECEIVED", "DATA_OFFER_SENT",
   "DATA_CONSOLE_ACCEPTED", "DATA_CLIENT_ACCEPTED", "DATA_ESTABLISHED"}

\* deviceUniqueIds in rps:members:created: NoDuid stands for "no string of
\* length 64 in the JSON", ConsoleDuid is the console the caller asks for,
\* ClientDuid is another device
NoDuid == "none"
ConsoleDuid == "console"
ClientDuid == "client"
DeviceUids == {ConsoleDuid}
Duids == {NoDuid, ConsoleDuid, ClientDuid}

PortTypes == {"CTRL", "DATA"}

\* request ids the console uses for its own messages; its RESULTs echo the
\* reqId of the message they answer, which can also be 0
ReqIds == {1, 2}

\* A customData1 string: its length, its base64 padding, and the padding of
\* the base64 text it decodes to.  len = -1: no customData1 string at all.
NoCD == [len |-> -1, pad |-> 0, ipad |-> 0]
CustomData1Ok == [len |-> 32, pad |-> 0, ipad |-> 2]
CustomData1Values ==
  { CustomData1Ok,
    [len |-> 32, pad |-> 0, ipad |-> 0],
    [len |-> 24, pad |-> 0, ipad |-> 2],
    NoCD }

\* The body of a session message: valid = it has the schema
\* session_message_parse accepts; ncand = -1 is an empty connRequest object.
NoMsg == [valid |-> FALSE, action |-> "NONE", reqId |-> 0, ncand |-> -1]
Msg(a, r, n) == [valid |-> TRUE, action |-> a, reqId |-> r, ncand |-> n]
MsgBodies ==
  { Msg("OFFER", r, MaxCands) : r \in ReqIds }
  \cup { Msg("OFFER", 1, n) : n \in {-1, 0} }
  \cup { Msg("RESULT", r, -1) : r \in ReqIds \cup {0} }
  \cup { Msg("ACCEPT", 2, -1), NoMsg }

\* The candidate array of a connRequest with n candidates, as the console
\* writes it: its LAN address first, then its public address.
OfferCandidates(n) ==
  [i \in 1..n |->
     IF i % 2 = 1 THEN [type |-> "LOCAL", addr |-> "lan", port |-> 9295]
     ELSE [type |-> "STATIC", addr |-> "wan", port |-> 9295]]

\* A websocket text frame
Frame(p, dt, d, c, m) ==
  [parses |-> p, dataType |-> dt, duid |-> d, cd |-> c, msg |-> m]
NoJson == Frame(FALSE, "none", NoDuid, NoCD, NoMsg)
JunkFrames == { NoJson, Frame(TRUE, "other", NoDuid, NoCD, NoMsg) }
SessionCreated ==
  Frame(TRUE, "remotePlaySession:created", NoDuid, NoCD, NoMsg)
MemberCreated(d) == Frame(TRUE, "rps:members:created", d, NoCD, NoMsg)
CustomData1(c) == Frame(TRUE, "rps:customData1:updated", NoDuid, c, NoMsg)
SessionMessage(m) ==
  Frame(TRUE, "rps:sessionMessage:created", NoDuid, NoCD, m)

CreatePhaseFrames == { SessionCreated, MemberCreated(ClientDuid) }
StartPhaseFrames ==
  { MemberCreated(d) : d \in Duids }
  \cup { CustomData1(c) : c \in CustomData1Values }
MsgPhaseFrames == { SessionMessage(m) : m \in MsgBodies }

\* The k-th frame the notification server pushes can be any frame of the
\* phase the session is in: CreateFrames frames about the creation, then
\* StartFrames frames about the console joining, then session messages.
PhaseFrames(k) ==
  JunkFrames \cup
  (IF k <= CreateFrames THEN CreatePhaseFrames
   ELSE IF k <= CreateFrames + StartFrames THEN StartPhaseFrames
   ELSE MsgPhaseFrames)

\* position k of the message phase: its round (1 = control, 2 = data, ...)
\* and its place in the round (0: the console's OFFER, 1: the console's
\* RESULT for the client's OFFER, 2: the console's ACCEPT)
RoundOf(k) == ((k - CreateFrames - StartFrames - 1) \div 3) + 1
PlaceOf(k) == (k - CreateFrames - StartFrames - 1) % 3

\* The frames the protocol calls for at position k: the two creation
\* notifications, the console's join and customData1, then rounds of
\* OFFER, RESULT and ACCEPT; the console numbers its OFFERs by round.
NominalAt(k) ==
  IF k <= CreateFrames THEN CreatePhaseFrames
  ELSE IF k <= CreateFrames + StartFrames
    THEN { MemberCreated(ConsoleDuid), CustomData1(CustomData1Ok) }
  ELSE IF PlaceOf(k) = 0
    THEN { SessionMessage(Msg("OFFER", ((RoundOf(k) - 1) % 2) + 1,
                              MaxCands)) }
  ELSE IF PlaceOf(k) = 1 THEN { SessionMessage(Msg("RESULT", 1, -1)) }
  ELSE { SessionMessage(Msg("ACCEPT", 2, -1)) }

\* what the server can push as its k-th frame after f frames that were not
\* nominal
FramesAt(k, f) ==
  NominalAt(k) \cup (IF f < MaxFaults THEN PhaseFrames(k) ELSE {})

\* The server pushes nothing about a session before its creation was
\* requested and nothing about the console before the start was requested;
\* the console offers the data connection once the control connection is
\* established, and answers the client's OFFER once that was sent.
ServerReady(k, creating, s, offered) ==
  IF k <= CreateFrames THEN creating
  ELSE IF k <= CreateFrames + StartFrames THEN "DATA_SENT" \in s
  ELSE IF PlaceOf(k) = 0
    THEN "DATA_SENT" \in s /\ (RoundOf(k) > 1 => "CTRL_ESTABLISHED" \in s)
  ELSE IF PlaceOf(k) = 1 THEN offered
  ELSE TRUE

Blank ==
  [live |-> FALSE, type |-> "UNKNOWN", previous |-> NULL, json |-> NoJson,
   acks |-> 0]

NoOp == [name |-> "none", port |-> "NONE", uid |-> NoDuid]
NoOffer == [node |-> NULL, req_id |-> 0, ncand |-> -1, cands |-> <<>>]
\* response_buf before the first recvfrom
NoResponse == [len |-> 0, msg_type |-> 0, same_id |-> FALSE]

\* outcomes of reading a freed Notification: a crash, the cell reads as
\* the end of the list, or the cell reads as a match of the wanted types
UBOutcomes == {"crash", "end", "match"}

SetMin(S) == CHOOSE x \in S : \A y \in S : x <= y

\* ------------------------------------------------------------ pure code
\* session->state |= bit
SetStateAssign(s, bit) == {bit}
SetState(s, bit) == s \cup {bit}

parse_notification_type(json) ==
  IF json.dataType = "remotePlaySession:created" THEN "SESSION_CREATED"
  ELSE IF json.dataType = "rps:members:created" THEN "MEMBER_CREATED"
  ELSE IF json.dataType = "rps:customData1:updated"
    THEN "CUSTOM_DATA1_UPDATED"
  ELSE IF json.dataType = "rps:sessionMessage:created"
    THEN "SESSION_MESSAGE_CREATED"
  ELSE "UNKNOWN"

\* chiaki_base64_decode: the number of bytes a base64 text of length len
\* with pad '=' characters decodes to, -1 when it is not base64 or does not
\* fit the output buffer of cap bytes
Base64DecodedLen(len, pad, cap) ==
  IF len < 0 \/ len % 4 # 0 \/ pad \notin 0..2 THEN -1
  ELSE LET n == (len \div 4) * 3 - pad
       IN IF n < 0 \/ n > cap THEN -1 ELSE n

decode_customdata1(cd, out_len) ==
  LET r1 == Base64DecodedLen(cd.len, cd.pad, 24)
  IN IF r1 < 0 THEN "INVALID_DATA"
     ELSE LET r2 == Base64DecodedLen(r1, cd.ipad, r1)
          IN IF r2 < 0 THEN "INVALID_DATA"
             ELSE IF r2 # out_len THEN "UNKNOWN" ELSE "SUCCESS"

\* session_message_get_payload + session_message_parse on a notification's
\* JSON: the parsed SessionMessage, or err # SUCCESS.  The candidate loop
\* fills a copy of each array element, so the array keeps calloc's zeroes:
\* every candidate reads back as type 0 (STATIC), empty addr, port 0.
ParsedCandidateType == "STATIC"
ParsedCandidate(c) == [type |-> ParsedCandidateType, addr |-> "", port |-> 0]
session_message_parse(json) ==
  IF json.parses /\ json.msg.valid
  THEN [err |-> "SUCCESS", action |-> json.msg.action,
        req_id |-> json.msg.reqId, ncand |-> json.msg.ncand,
        cands |-> [i \in 1..json.msg.ncand |->
                     ParsedCandidate(OfferCandidates(json.msg.ncand)[i])]]
  ELSE [err |-> "UNKNOWN", action |-> "NONE", req_id |-> 0, ncand |-> -1,
        cands |-> <<>>]

\* the window in which the reader thread answers OFFERs itself
should_ack_offersUntilEnd(s) == "CTRL_OFFER_RECEIVED" \in s
should_ack_offers(s) ==
  ("CTRL_OFFER_RECEIVED" \in s /\ "CTRL_ESTABLISHED" \notin s)
  \/ "DATA_OFFER_RECEIVED" \in s

\* the precondition test at the top of session_punch_hole
PunchPreconditionNever(port, s) == FALSE
PunchPreconditionOnlyCtrl(port, s) ==
  port = "CTRL" /\ "CUSTOMDATA1_RECEIVED" \notin s
PunchPreconditionFails(port, s) ==
  \/ port = "CTRL" /\ "CUSTOMDATA1_RECEIVED" \notin s
  \/ port = "DATA" /\ "CTRL_ESTABLISHED" \notin s

\* the two tests at the top of session_start: the error returned, or NONE
StartPreconditionIgnored(s) == "NONE"
StartPreconditionError(s) ==
  IF "CREATED" \notin s THEN "UNINITIALIZED"
  ELSE IF "STARTED" \in s THEN "UNKNOWN"
  ELSE "NONE"

\* what session_create and session_start return once their loop is left,
\* whatever err the loop was left with
CreateReturn(err) == "SUCCESS"
StartReturn(err) == "SUCCESS"

\* ------------------------------------------------------ the heap of cells
\* The cells met walking `previous` from n: live cells, then either NULL or
\* one freed cell (the last element), which the walk cannot read.
RECURSIVE Chain(_, _, _)
Chain(h, n, fuel) ==
  IF n = NULL \/ fuel = 0 THEN <<>>
  ELSE IF ~h[n].live THEN <<n>>
  ELSE <<n>> \o Chain(h, h[n].previous, fuel - 1)

Queue(h, n) == Chain(h, n, MaxNodes)

Range(s) == { s[i] : i \in 1..Len(s) }

\* cells some pointer of the program still refers to
Refs(h, roots) ==
  (roots \cup { h[i].previous : i \in { j \in NodeIds : h[j].live } })
  \ {NULL}

\* malloc(sizeof(Notification)): a cell that is free and that no pointer
\* refers to any more
FreeCells(h, roots) ==
  { i \in NodeIds : ~h[i].live /\ i \notin Refs(h, roots) }

\* Cells the program has lost every pointer to (leaked memory) are returned
\* to the pool: nothing can observe them.
Collect(h, roots) ==
  LET reach == UNION { Range(Queue(h, r)) : r \in roots \ {NULL} }
  IN [i \in NodeIds |-> IF h[i].live /\ i \notin reach THEN Blank ELSE h[i]]

\* notification_queue_free of a single cell
FreeCell(h, n) == [h EXCEPT ![n] = Blank]

\* session_message_free(msg) for a message that carries its notification:
\* the cell's previous is cleared and the cell is freed; it is not unlinked.
\* Freeing an already freed cell leaves the heap as it is.
session_message_free(h, n) ==
  IF n = NULL THEN h ELSE FreeCell(h, n)

\* notif->type read through a pointer
NodeType(h, n) == IF h[n].live THEN h[n].type ELSE "GARBAGE"

\* what the use of the fields of cell n can do: a freed cell crashes the
\* process or reads as garbage
DerefOutcomes(h, n) == IF h[n].live THEN {"ok"} ELSE {"crash", "garbage"}

\* a scan that looks at the head of the queue only
wait_for_notificationHeadOnly(h, hd, lk, types) ==
  IF hd = lk \/ hd = NULL \/ ~h[hd].live \/ h[hd].type \notin types
    THEN { [kind |-> "wait", node |-> NULL, last |-> hd] }
  ELSE { [kind |-> "found", node |-> hd, last |-> NULL] }

\* the scan of wait_for_notification once the queue head differs from
\* last_known: the walk from the head looks at every cell down to the end of
\* the list, returns the first cell whose type is wanted, and otherwise
\* leaves last_known on the oldest cell, so that the outer loop waits only
\* when the list has a single cell
wait_for_notification(h, hd, lk, types) ==
  IF hd = lk THEN { [kind |-> "wait", node |-> NULL, last |-> lk] }
  ELSE
    LET c == Queue(h, hd)
        hits == { i \in 1..Len(c) : ~h[c[i]].live \/ h[c[i]].type \in types }
        none(k) == [kind |-> IF k = 1 THEN "wait" ELSE "spin",
                    node |-> NULL, last |-> c[k]]
        found(k) == [kind |-> "found", node |-> c[k], last |-> NULL]
    IN IF hits = {} THEN { none(Len(c)) }
       ELSE LET i == SetMin(hits)
            IN IF h[c[i]].live THEN { found(i) }
               ELSE { IF o = "crash"
                        THEN [kind |-> "crash", node |-> NULL, last |-> NULL]
                      ELSE IF o = "end" THEN none(i)
                      ELSE found(i) : o \in UBOutcomes }

\* the locked part of clear_notification: the walk starts at the head that
\* was read before the lock was taken (start); the cell is unlinked and
\* freed.  found = FALSE: the walk ran off the list without meeting the cell.
clear_notification(h, hd, start, n) ==
  LET c == Queue(h, start)
      at == { i \in 1..Len(c) : c[i] = n }
  IN IF at = {} \/ ~h[n].live
       THEN [found |-> FALSE, head |-> hd, heap |-> h]
     ELSE LET i == SetMin(at)
          IN IF i = 1
               THEN [found |-> TRUE, head |-> h[n].previous,
                     heap |-> FreeCell(h, n)]
             ELSE [found |-> TRUE, head |-> hd,
                   heap |-> FreeCell(
                     [h EXCEPT ![c[i - 1]].previous = h[n].previous], n)]

\* notification types each waiter asks wait_for_notification for
WantedTypes(c) ==
  IF c = "create" THEN {"SESSION_CREATED", "MEMBER_CREATED"}
  ELSE IF c = "start" THEN {"MEMBER_CREATED", "CUSTOM_DATA1_UPDATED"}
  ELSE {"SESSION_MESSAGE_CREATED"}

\* session message actions each wait_for_session_message call asks for
WantedActions(c) ==
  IF c = "offer" THEN {"OFFER"}
  ELSE IF c = "ack" THEN {"RESULT"}
  ELSE {"ACCEPT"}

\* the outcomes the environment can produce after f faults
Outcomes(ok, bad, f) == ok \cup (IF f < MaxFaults THEN bad ELSE {})

HttpFailures == {"HTTP_NONOK", "NETWORK"}
HttpResults(f) == Outcomes({"SUCCESS"}, HttpFailures, f)


\* --------------------------------------------------- session message codec
\* A message text is a sequence of tokens: punctuation, keys (with their
\* colon) and values.  NUL is the byte 0 of a C buffer, CutToken a token
\* that snprintf has cut short.
P(s) == [q |-> "punct", s |-> s]
K(s) == [q |-> "key", s |-> s]
V(s) == [q |-> "value", s |-> s]
NUL == P("NUL")
CutToken == P("cut")
NumStr(n) == <<"0", "1", "2", "3", "4">>[n + 1]

\* the strings the "action" key takes on the wire
WireActions == {"OFFER", "ACCEPT", "RESULT", "TERMINATE", "HELLO"}

\* connRequest on the wire: {} (present = FALSE) or the full object, whose
\* localPeerAddr is an object or has no value at all
NoConn ==
  [present |-> FALSE, sid |-> 0, peerSid |-> 0, natType |-> 0, ncand |-> 0,
   lpa |-> "object"]
WireConns ==
  {NoConn} \cup
  { [present |-> TRUE, sid |-> 1, peerSid |-> 2, natType |-> 2, ncand |-> n,
     lpa |-> l] : n \in 0..MaxCands, l \in {"object", "empty", "missing"} }
WireMessages ==
  { [action |-> a, reqId |-> r, error |-> e, conn |-> c] :
      a \in WireActions, r \in ReqIds \cup {0}, e \in {0, 1},
      c \in WireConns }

\* one candidate object, and the array elements separated by commas
CandidateText(c) ==
  <<P("{"), K("type"), V(c.type), P(","), K("addr"), V(c.addr), P(","),
    K("mappedAddr"), V(c.addr), P(","), K("port"), V("9295"), P(","),
    K("mappedPort"), V("9295"), P("}")>>

RECURSIVE CandidatesText(_, _)
CandidatesText(cs, i) ==
  IF i > Len(cs) THEN <<>>
  ELSE CandidateText(cs[i])
       \o (IF i < Len(cs) THEN <<P(",")>> ELSE <<>>)
       \o CandidatesText(cs, i + 1)

LocalPeerAddrText(l) ==
  IF l = "object"
    THEN <<P("{"), K("accountId"), V("id"), P(","), K("platform"),
           V("PROSPERO"), P("}")>>
  ELSE IF l = "empty" THEN <<P("{"), P("}")>>
  ELSE <<>>

ConnText(c) ==
  IF ~c.present THEN <<P("{"), P("}")>>
  ELSE <<P("{"), K("sid"), V(NumStr(c.sid)), P(","),
         K("peerSid"), V(NumStr(c.peerSid)), P(","),
         K("skey"), V("c2tleQ=="), P(","),
         K("natType"), V(NumStr(c.natType)), P(","),
         K("candidate"), P("[")>>
       \o CandidatesText(OfferCandidates(c.ncand), 1)
       \o <<P("]"), P(","), K("defaultRouteMacAddr"), V("mac"), P(","),
            K("localPeerAddr")>>
       \o LocalPeerAddrText(c.lpa)
       \o <<P(","), K("localHashedId"), V("aGFzaA=="), P("}")>>

\* the body of a session message as the console writes it
WireText(m) ==
  <<P("{"), K("action"), V(m.action), P(","), K("reqId"),
    V(NumStr(m.reqId)), P(","), K("error"), V(NumStr(m.error)), P(","),
    K("connRequest")>>
  \o ConnText(m.conn) \o <<P("}")>>

\* json_tokener_parse: the object a well-formed text stands for, or NULL
\* (ok = FALSE).  A key without a value is not well-formed.
JsonNull == [ok |-> FALSE, obj |-> [action |-> "", reqId |-> 0, error |-> 0,
                                    conn |-> NoConn]]
json_tokener_parse(toks) ==
  LET ms == { m \in WireMessages :
                m.conn.lpa # "missing" /\ WireText(m) = toks }
  IN IF ms = {} THEN JsonNull ELSE [ok |-> TRUE, obj |-> CHOOSE m \in ms : TRUE]

\* the C string in a buffer: the bytes before the first NUL
CString(b) ==
  LET z == { i \in 1..Len(b) : b[i] = NUL }
  IN IF z = {} THEN b ELSE SubSeq(b, 1, SetMin(z) - 1)

\* fixed_json of session_message_get_payload; k is the position of the
\* "localPeerAddr": key, so prefix_len = k: the buffer is zeroed, the prefix
\* is copied, '{' and '}' are stored at prefix_len + 1 and prefix_len + 2,
\* and the rest of the text is copied to prefix_len + 2
fixed_json(toks, k) ==
  LET n == Len(toks)
      b1 == [i \in 1..(n + 3) |-> IF i <= k THEN toks[i] ELSE NUL]
      b2 == [b1 EXCEPT ![k + 2] = P("{"), ![k + 3] = P("}")]
  IN [i \in 1..(n + 3) |->
        IF i >= k + 3 /\ i <= n + 2 THEN toks[i - 2] ELSE b2[i]]

\* the text session_message_get_payload hands to json_tokener_parse
PayloadText(toks) ==
  LET at == { i \in 1..Len(toks) : toks[i] = K("localPeerAddr") }
  IN IF at = {} THEN toks
     ELSE LET k == SetMin(at)
          IN IF k < Len(toks) /\ toks[k + 1] = P("{") THEN toks
             ELSE CString(fixed_json(toks, k))

session_message_get_payload(toks) == json_tokener_parse(PayloadText(toks))

\* session_message_parse on the object session_message_get_payload returned
NoConnRequest ==
  [present |-> FALSE, sid |-> 0, peer_sid |-> 0, nat_type |-> 0,
   num_candidates |-> 0, candidates |-> <<>>]
ParseFailed ==
  [err |-> "UNKNOWN", action |-> "NONE", req_id |-> 0, error |-> 0,
   conn_request |-> NoConnRequest]
session_message_parse_json(j) ==
  IF ~j.ok THEN ParseFailed
  ELSE LET m == j.obj
       IN [err |-> "SUCCESS",
           action |-> IF m.action = "HELLO" THEN "UNKNOWN" ELSE m.action,
           req_id |-> m.reqId, error |-> m.error,
           conn_request |->
             IF ~m.conn.present THEN NoConnRequest
             ELSE [present |-> TRUE, sid |-> m.conn.sid,
                   peer_sid |-> m.conn.peerSid, nat_type |-> m.conn.natType,
                   num_candidates |-> m.conn.ncand,
                   candidates |->
                     [i \in 1..m.conn.ncand |->
                        ParsedCandidate(OfferCandidates(m.conn.ncand)[i])]]]

\* characters of a token in the text session_message_serialize writes: a
\* key or a string value has its quotes escaped and is 8 characters or more
TokLen(t) ==
  IF t.q = "punct" \/ t.s \in {"0", "1", "2", "3", "4"} THEN 1 ELSE 8

\* snprintf(buf, size, ...): at most n = size - 1 characters are written
RECURSIVE Truncate(_, _)
Truncate(toks, n) ==
  IF toks = <<>> THEN <<>>
  ELSE IF TokLen(Head(toks)) <= n
    THEN <<Head(toks)>> \o Truncate(Tail(toks), n - TokLen(Head(toks)))
  ELSE IF n > 0 THEN <<CutToken>>
  ELSE <<>>

\* sizeof(serialized_msg), the size of a pointer
PointerSize == 8

\* the candidates as session_message_serialize writes them: no brackets,
\* every element cut by one character and followed by a comma
RECURSIVE SerializedCandidates(_, _)
SerializedCandidates(cs, i) ==
  IF i > Len(cs) THEN <<>>
  ELSE LET t == CandidateText([type |-> cs[i].type, addr |-> cs[i].addr])
       IN SubSeq(t, 1, Len(t) - 1) \o <<P(",")>>
          \o SerializedCandidates(cs, i + 1)

\* session_message_serialize: the text written into *out, or a crash when
\* message->conn_request is NULL
session_message_serialize(msg) ==
  IF ~msg.conn_request.present THEN [crash |-> TRUE, text |-> <<>>]
  ELSE
    LET c == msg.conn_request
        full ==
          <<P("{"), K("action"), V(msg.action), P(","), K("reqId"),
            V(NumStr(msg.req_id)), P(","), K("error"),
            V(NumStr(msg.error)), P(","), K("connRequest"),
            P("{"), K("sid"), V(NumStr(c.sid)), P(","),
            K("peerSid"), V(NumStr(c.peer_sid)), P(","),
            K("skey"), V("c2tleQ=="), P(","),
            K("natType"), V(NumStr(c.nat_type)), P(","), K("candidate")>>
          \o SerializedCandidates(c.candidates, 1)
          \o <<P(","), K("defaultRouteMacAddr"), V("mac"), P(","),
               K("localPeerAddr")>>
          \o LocalPeerAddrText("object")
          \o <<P(","), K("localHashedId"), V("aGFzaA=="), P("}"), P("}")>>
    IN [crash |-> FALSE, text |-> Truncate(full, PointerSize - 1)]

\* the RESULT the websocket thread builds to answer an OFFER itself
ack_msg(req_id) ==
  [err |-> "SUCCESS", action |-> "RESULT", req_id |-> req_id, error |-> 0,
   conn_request |-> [NoConnRequest EXCEPT !.present = TRUE]]

\* decode a text: session_message_get_payload, then session_message_parse
Decode(toks) == session_message_parse_json(session_message_get_payload(toks))

NoCodec ==
  [stage |-> "off", text |-> <<>>, msg |-> ParseFailed, text2 |-> <<>>,
   msg2 |-> ParseFailed]

\* ------------------------------------------------------------- variables
\* ------------------------------------------------------------ heartbeat
ClockMod == 2 ^ ClockBits

\* now - last_ping_sent, an unsigned difference
Since(now, last_ping_sent) == (now - last_ping_sent + ClockMod) % ClockMod

heartbeatNoDeadline(expecting_pong, now, last_ping_sent) ==
  IF Since(now, last_ping_sent) > PingTicks THEN "ping" ELSE "none"

\* the top of the websocket thread's loop: give up when a PONG is overdue,
\* else send a PING when the last one is more than 5 s old
heartbeat(expecting_pong, now, last_ping_sent) ==
  IF expecting_pong /\ Since(now, last_ping_sent) > PingTicks THEN "exit"
  ELSE IF Since(now, last_ping_sent) > PingTicks THEN "ping"
  ELSE "none"

\* what curl_ws_recv and the select after it can yield
WsEvents == {"again", "pong", "ping", "text", "close", "error"}

NoHb ==
  [stage |-> "off", now |-> 0, last_ping_sent |-> 0,
   expecting_pong |-> FALSE, did |-> "none", frame |-> "none"]

VARIABLES
  state,          \* session->state
  state_mutex,    \* owner of session->state_mutex
  notif_mutex,    \* owner of session->notif_mutex
  head,           \* session->ws_notification_queue
  heap,           \* the Notification cells
  pc,             \* position of the caller thread
  op,             \* the public operation the caller is in / returned from
  ret,            \* its return value
  ctx,            \* which wait the caller is in
  notif,          \* the notification wait_for_notification handed out
  last_known,     \* wait_for_notification's last_known
  cn_start,       \* head as read by clear_notification before locking
  offer,          \* console_offer_msg
  trace,          \* steps the current punch_hole has gone through
  console_uid,    \* session->console_uid
  client_sock,    \* session->client_sock
  socks,          \* check_candidates' sockets[]
  fds,            \* check_candidates' fd_set
  selected,       \* check_candidates' selected socket (index, 0 = -1)
  out_sock,       \* *out_sock of the punch_hole caller
  response,       \* the datagram check_candidates' last recvfrom delivered
  rpc,            \* position of the websocket thread
  rx,             \* the notification the websocket thread is about to append
  should_stop,    \* session->ws_thread_should_stop
  envpos,         \* frames pushed so far
  faults,         \* faults of the environment so far
  nStartPosts,    \* start_session POSTs issued
  created,        \* session_create has been called
  share_cleanups, \* calls of curl_share_cleanup
  released,       \* what session_fini has released, in the order it did
  codec,          \* a session message on its way through the codec
  hb,             \* the websocket thread's heartbeat: clock, ping and pong
  elapsed         \* ticks since the current wait_for_notification started

sessVars == <<state, state_mutex, notif_mutex>>
queueVars == <<head, heap>>
waitVars == <<ctx, notif, last_known, cn_start>>
sockVars == <<client_sock, socks, fds, selected, out_sock, response>>
readerVars == <<rpc, rx, should_stop, envpos>>
restVars == <<nStartPosts, created, share_cleanups, released, codec, hb>>
countVars == <<restVars, elapsed>>
vars == <<sessVars, queueVars, pc, op, ret, waitVars, offer, trace,
          console_uid, sockVars, readerVars, faults, countVars>>

\* the environment's choice was a fault, or not
Fault(b) == faults' = IF b THEN faults + 1 ELSE faults

\* chiaki_holepunch_session_init
SessionInit ==
  /\ state = {}
  /\ state_mutex = "none" /\ notif_mutex = "none"
  /\ head = NULL /\ heap = [i \in NodeIds |-> Blank]
  /\ pc = "idle" /\ op = NoOp /\ ret = "NONE"
  /\ ctx = "none" /\ notif = NULL /\ last_known = NULL /\ cn_start = NULL
  /\ offer = NoOffer /\ trace = <<>>
  /\ console_uid = NoDuid
  /\ client_sock = "none" /\ socks = <<>> /\ fds = {} /\ selected = 0
  /\ out_sock = 0 /\ response = NoResponse
  /\ rpc = "none" /\ rx = NULL /\ should_stop = FALSE /\ envpos = 0
  /\ faults = 0
  /\ nStartPosts = 0 /\ created = FALSE /\ share_cleanups = 0
  /\ released = <<>>
  /\ elapsed = 0

Init == SessionInit /\ codec = NoCodec /\ hb = NoHb

\* the operation returns r; its locals die
Return(r) ==
  /\ pc' = "returned" /\ ret' = r
  /\ ctx' = "none" /\ notif' = NULL /\ last_known' = NULL /\ cn_start' = NULL

\* the process dies (segmentation fault)
Crash ==
  /\ pc' = "crashed" /\ ret' = "NONE"
  /\ ctx' = "none" /\ notif' = NULL /\ last_known' = NULL /\ cn_start' = NULL

\* the caller blocks for ever on a mutex it already holds
SelfDeadlock ==
  /\ pc' = "deadlocked"
  /\ UNCHANGED <<ret, waitVars>>

\* the application goes on after an operation returned
Resume ==
  /\ pc = "returned"
  /\ pc' = "idle" /\ op' = NoOp /\ ret' = "NONE" /\ trace' = <<>>
  /\ socks' = <<>> /\ out_sock' = 0 /\ response' = NoResponse
  /\ elapsed' = 0
  /\ UNCHANGED <<sessVars, queueVars, waitVars, offer, console_uid,
                 client_sock, fds, selected, readerVars, faults, restVars>>

\* ------------------------------------------------------- session_create
\* get_websocket_fqdn and the start of the websocket thread
CallCreate ==
  /\ pc = "idle" /\ ~created
  /\ created' = TRUE
  /\ op' = [name |-> "create", port |-> "NONE", uid |-> NoDuid]
  /\ \E r \in Outcomes({"SUCCESS"}, HttpFailures \cup {"UNKNOWN", "THREAD"},
                        faults) :
       /\ Fault(r # "SUCCESS")
       /\ IF r = "SUCCESS"
            THEN /\ rpc' = "connect" /\ pc' = "create_wait_ws"
                 /\ UNCHANGED <<ret, share_cleanups>>
          ELSE /\ share_cleanups' = share_cleanups + 1
               /\ pc' = "returned" /\ ret' = r
               /\ UNCHANGED rpc
  /\ UNCHANGED <<sessVars, queueVars, waitVars, offer, trace, console_uid,
                 sockVars, rx, should_stop, envpos, nStartPosts, released,
                 codec, hb, elapsed>>

\* the wait for WS_OPEN, then http_create_session
CreateSession ==
  /\ pc = "create_wait_ws" /\ state_mutex = "none" /\ "WS_OPEN" \in state
  /\ \E r \in Outcomes({"SUCCESS"}, HttpFailures \cup {"UNKNOWN"}, faults) :
       /\ Fault(r # "SUCCESS")
       /\ IF r = "SUCCESS"
            THEN /\ pc' = "wfn" /\ ctx' = "create"
                 /\ UNCHANGED <<ret, should_stop>>
          ELSE /\ should_stop' = TRUE /\ pc' = "create_join" /\ ret' = r
               /\ UNCHANGED ctx
  /\ UNCHANGED <<sessVars, queueVars, op, notif, last_known, cn_start, offer,
                 trace, console_uid, sockVars, rpc, rx, envpos, countVars>>

\* cleanup_thread: join the websocket thread, release the share handle
CreateJoin ==
  /\ pc = "create_join" /\ rpc = "exited"
  /\ share_cleanups' = share_cleanups + 1
  /\ pc' = "returned"
  /\ UNCHANGED <<sessVars, queueVars, op, ret, waitVars, offer, trace,
                 console_uid, sockVars, readerVars, faults, nStartPosts,
                 created, released, codec, hb, elapsed>>

\* the body of session_create's loop for a notification it was handed
CreateGot ==
  /\ pc = "create_got"
  /\ \E o \in DerefOutcomes(heap, notif) :
     IF state_mutex # "none"
       THEN SelfDeadlock /\ UNCHANGED <<state, state_mutex>>
     ELSE IF o = "crash"
       THEN Crash /\ state_mutex' = "caller" /\ UNCHANGED state
     ELSE LET t == NodeType(heap, notif)
          IN IF t = "SESSION_CREATED" \/ t = "MEMBER_CREATED"
               THEN /\ state' = SetState(state,
                         IF t = "SESSION_CREATED" THEN "CREATED"
                         ELSE "CLIENT_JOINED")
                    /\ cn_start' = head /\ pc' = "create_clear"
                    /\ UNCHANGED <<state_mutex, ret, ctx, notif, last_known>>
             ELSE /\ state_mutex' = "caller"
                  /\ Return(CreateReturn("UNKNOWN"))
                  /\ UNCHANGED state
  /\ UNCHANGED <<notif_mutex, queueVars, op, offer, trace, console_uid,
                 sockVars, readerVars, faults, countVars>>

\* clear_notification, then the end of the loop body
CreateClear ==
  /\ pc = "create_clear" /\ notif_mutex = "none"
  /\ LET r == clear_notification(heap, head, cn_start, notif)
     IN /\ head' = r.head
        /\ heap' = Collect(r.heap, {r.head, rx})
  /\ IF "CREATED" \in state /\ "CLIENT_JOINED" \in state
       THEN Return("SUCCESS")
     ELSE /\ pc' = "wfn" /\ notif' = NULL /\ cn_start' = NULL
          /\ UNCHANGED <<ret, ctx, last_known>>
  /\ UNCHANGED <<sessVars, op, offer, trace, console_uid, sockVars,
                 readerVars, faults, countVars>>

\* ------------------------------------------------- wait_for_notification
\* where the caller goes on with the notification it was handed
Continuation(c) ==
  IF c = "create" THEN "create_got"
  ELSE IF c = "start" THEN "start_got"
  ELSE "wsm_parse"

WfnStep(r, e) ==
  /\ elapsed' = IF r.kind \in {"wait", "spin"} THEN e ELSE 0
  /\ IF r.kind = "found"
       THEN /\ pc' = Continuation(ctx) /\ notif' = r.node
            /\ last_known' = NULL
            /\ UNCHANGED <<notif_mutex, ret, ctx, cn_start>>
     ELSE IF r.kind = "wait"
       THEN /\ pc' = "wfn_wait" /\ last_known' = r.last
            /\ UNCHANGED <<notif_mutex, ret, ctx, notif, cn_start>>
     ELSE IF r.kind = "spin"
       THEN /\ pc' = "wfn_spin" /\ last_known' = r.last
            /\ notif_mutex' = "caller"
            /\ UNCHANGED <<ret, ctx, notif, cn_start>>
     ELSE Crash /\ UNCHANGED notif_mutex
  /\ UNCHANGED <<state, state_mutex, queueVars, op, offer, trace,
                 console_uid, sockVars, readerVars, faults, restVars>>

\* entry: waiting_since = now, last_known = NULL
WfnScan ==
  /\ pc = "wfn" /\ notif_mutex = "none"
  /\ \E r \in wait_for_notification(heap, head, NULL, WantedTypes(ctx)) :
       WfnStep(r, 0)

\* the condition variable was signalled, d ticks after the timed wait was
\* entered and before it expired, and the head has changed; a wait entered
\* after the scan gets the whole timeout_ms again
WfnWake ==
  /\ pc = "wfn_wait" /\ notif_mutex = "none" /\ head # last_known
  /\ \E r \in wait_for_notification(heap, head, last_known,
                                    WantedTypes(ctx)),
        d \in 0..(TimeoutTicks - 1) :
       WfnStep(r, elapsed + d)

\* cleanup: of session_punch_hole, returning err
PunchCleanup(err) ==
  /\ heap' = Collect(session_message_free(heap, offer.node), {head, rx})
  /\ offer' = NoOffer
  /\ Return(err)
  /\ UNCHANGED head

\* the timed wait expires, timeout_ms after it was entered, without a
\* signal; the clock read then is past waiting_since + timeout_ms
WfnTimeout ==
  /\ pc = "wfn_wait" /\ notif_mutex = "none" /\ head = last_known
  /\ faults < MaxFaults /\ Fault(TRUE)
  /\ elapsed' = elapsed + TimeoutTicks
  /\ IF ctx = "create"
       THEN Return(CreateReturn("TIMEOUT")) /\ UNCHANGED <<queueVars, offer>>
     ELSE IF ctx = "start"
       THEN Return(StartReturn("TIMEOUT")) /\ UNCHANGED <<queueVars, offer>>
     ELSE IF ctx = "offer"
       THEN Return("TIMEOUT") /\ UNCHANGED <<queueVars, offer>>
     ELSE PunchCleanup("TIMEOUT")
  /\ UNCHANGED <<sessVars, op, trace, console_uid, sockVars, readerVars,
                 restVars>>

\* -------------------------------------------------------- session_start
\* the two precondition tests, the copy of the console UID and
\* http_start_session
CallStart ==
  /\ pc = "idle" /\ nStartPosts < MaxStartPosts
  /\ \E uid \in DeviceUids :
       /\ op' = [name |-> "start", port |-> "NONE", uid |-> uid]
       /\ LET e == StartPreconditionError(state)
          IN IF e # "NONE"
               THEN /\ Return(e)
                    /\ UNCHANGED <<state, console_uid, nStartPosts, faults>>
             ELSE /\ console_uid' = uid
                  /\ nStartPosts' = nStartPosts + 1
                  /\ \E r \in HttpResults(faults) :
                       /\ Fault(r # "SUCCESS")
                       /\ IF r # "SUCCESS"
                            THEN Return(r) /\ UNCHANGED state
                          ELSE IF state_mutex # "none"
                            THEN SelfDeadlock /\ UNCHANGED state
                          ELSE /\ state' = SetState(state, "DATA_SENT")
                               /\ pc' = "wfn" /\ ctx' = "start"
                               /\ UNCHANGED <<ret, notif, last_known,
                                              cn_start>>
  /\ UNCHANGED <<state_mutex, notif_mutex, queueVars, offer, trace, sockVars,
                 readerVars, created, share_cleanups, released, codec, hb,
                 elapsed>>

\* the branch of session_start's loop body for a notification of type t
\* with JSON j: the state bit to set, or the err the loop is left with
StartHandle(t, j, uid) ==
  IF t = "MEMBER_CREATED"
    THEN IF j.duid = NoDuid \/ j.duid # uid
           THEN [bit |-> "NONE", err |-> "UNKNOWN"]
         ELSE [bit |-> "CONSOLE_JOINED", err |-> "SUCCESS"]
  ELSE IF t = "CUSTOM_DATA1_UPDATED"
    THEN IF j.cd.len = -1 \/ j.cd.len # 32
           THEN [bit |-> "NONE", err |-> "UNKNOWN"]
         ELSE LET e == decode_customdata1(j.cd, 16)
              IN IF e # "SUCCESS" THEN [bit |-> "NONE", err |-> e]
                 ELSE [bit |-> "CUSTOMDATA1_RECEIVED", err |-> "SUCCESS"]
  ELSE [bit |-> "NONE", err |-> "UNKNOWN"]

\* the body of session_start's loop; every break leaves state_mutex locked
StartGot ==
  /\ pc = "start_got"
  /\ \E o \in DerefOutcomes(heap, notif) :
     IF state_mutex # "none"
       THEN SelfDeadlock /\ UNCHANGED <<state, state_mutex>>
     ELSE IF o = "crash"
       THEN Crash /\ state_mutex' = "caller" /\ UNCHANGED state
     ELSE LET r == StartHandle(NodeType(heap, notif), heap[notif].json,
                               console_uid)
          IN /\ state_mutex' = "caller"
             /\ IF r.bit # "NONE"
                  THEN /\ state' = SetState(state, r.bit)
                       /\ cn_start' = head /\ pc' = "start_clear"
                       /\ UNCHANGED <<ret, ctx, notif, last_known>>
                ELSE Return(StartReturn(r.err)) /\ UNCHANGED state
  /\ UNCHANGED <<notif_mutex, queueVars, op, offer, trace, console_uid,
                 sockVars, readerVars, faults, countVars>>

\* clear_notification under state_mutex, then the end of the loop body
StartClear ==
  /\ pc = "start_clear" /\ notif_mutex = "none"
  /\ LET r == clear_notification(heap, head, cn_start, notif)
     IN /\ head' = r.head
        /\ heap' = Collect(r.heap, {r.head, rx})
  /\ state_mutex' = "none"
  /\ IF "CONSOLE_JOINED" \in state /\ "CUSTOMDATA1_RECEIVED" \in state
       THEN Return("SUCCESS")
     ELSE /\ pc' = "wfn" /\ notif' = NULL /\ cn_start' = NULL
          /\ UNCHANGED <<ret, ctx, last_known>>
  /\ UNCHANGED <<state, notif_mutex, op, offer, trace, console_uid, sockVars,
                 readerVars, faults, countVars>>

\* --------------------------------------------------- session_punch_hole
\* request id session_punch_hole passes to send_offer and waits for
our_offer_req_id == 1
\* request id send_offer puts into the OFFER, whatever it was passed
send_offer_req_id(req_id) == 0
\* request id of the ACCEPT
accept_req_id == 2

\* one entry of the log of the messages a punch_hole call receives and sends
Step(s, r, k) == [step |-> s, req_id |-> r, ok |-> k]

\* the precondition test, then the start of the wait for the console's OFFER
CallPunch ==
  /\ pc = "idle"
  /\ \E port \in PortTypes :
       /\ op' = [name |-> "punch", port |-> port, uid |-> NoDuid]
       /\ IF PunchPreconditionFails(port, state)
            THEN Return("UNKNOWN")
          ELSE /\ pc' = "wfn" /\ ctx' = "offer"
               /\ UNCHANGED <<ret, notif, last_known, cn_start>>
  /\ UNCHANGED <<sessVars, queueVars, offer, trace, console_uid, sockVars,
                 readerVars, faults, countVars>>

\* wait_for_session_message / wait_for_session_message_ack after
\* wait_for_notification handed out a notification, up to the next wait
WsmParse ==
  /\ pc = "wsm_parse"
  /\ \E o \in DerefOutcomes(heap, notif) :
     LET m == session_message_parse(heap[notif].json)
     IN
     IF o = "crash"
       THEN Crash /\ UNCHANGED <<state, queueVars, offer, trace>>
     ELSE IF m.err # "SUCCESS"
       THEN /\ IF ctx = "offer"
                 THEN Return(m.err) /\ UNCHANGED <<queueVars, offer>>
               ELSE PunchCleanup(m.err)
            /\ UNCHANGED <<state, trace>>
     ELSE IF \/ m.action \notin WantedActions(ctx)
             \/ ctx = "ack" /\ m.req_id # our_offer_req_id
       THEN /\ pc' = "wfn" /\ notif' = NULL
            /\ UNCHANGED <<state, queueVars, offer, trace, ret, ctx,
                           last_known, cn_start>>
     ELSE IF ctx = "offer"
       THEN /\ offer' = [node |-> notif, req_id |-> m.req_id,
                         ncand |-> m.ncand, cands |-> m.cands]
            /\ trace' = Append(trace, Step("rx_offer", m.req_id, TRUE))
            /\ pc' = "ph_offer" /\ notif' = NULL
            /\ UNCHANGED <<state, queueVars, ret, ctx, last_known, cn_start>>
     ELSE IF ctx = "ack"
       THEN /\ heap' = Collect(session_message_free(heap, notif),
                               {head, rx, offer.node})
            /\ trace' = Append(trace, Step("rx_result", m.req_id, TRUE))
            /\ pc' = "probe" /\ notif' = NULL
            /\ UNCHANGED <<state, head, offer, ret, ctx, last_known,
                           cn_start>>
     ELSE IF state_mutex # "none"
       THEN SelfDeadlock /\ UNCHANGED <<state, queueVars, offer, trace>>
     ELSE /\ state' = SetState(state, "CTRL_ESTABLISHED")
          /\ trace' = Append(trace, Step("rx_accept", m.req_id, TRUE))
          /\ PunchCleanup("SUCCESS")
  /\ UNCHANGED <<state_mutex, notif_mutex, op, console_uid, sockVars,
                 readerVars, faults, countVars>>

\* the console's OFFER is taken over and acknowledged with a RESULT
PhOffer ==
  /\ pc = "ph_offer"
  /\ IF offer.ncand = -1
       THEN Crash /\ UNCHANGED <<state, trace, faults>>
     ELSE IF state_mutex # "none"
       THEN SelfDeadlock /\ UNCHANGED <<state, trace, faults>>
     ELSE /\ state' = SetState(state, "CTRL_OFFER_RECEIVED")
          /\ \E r \in HttpResults(faults) :
               /\ Fault(r # "SUCCESS")
               /\ trace' = Append(trace,
                     Step("tx_result", offer.req_id, r = "SUCCESS"))
          /\ pc' = "ph_send_offer"
          /\ UNCHANGED <<ret, waitVars>>
  /\ UNCHANGED <<state_mutex, notif_mutex, queueVars, op, offer, console_uid,
                 sockVars, readerVars, countVars>>

\* send_offer; its result is not looked at
SendOfferFailures == {"socket", "getsockname", "noaddr", "http"}
PhSendOffer ==
  /\ pc = "ph_send_offer"
  /\ \E o \in Outcomes({"ok"}, SendOfferFailures, faults) :
       /\ Fault(o # "ok")
       /\ client_sock' = IF o = "socket" THEN "none"
                         ELSE IF o = "ok" THEN "open" ELSE "closed"
       /\ trace' = IF o \in {"http", "ok"}
                     THEN Append(trace,
                            Step("tx_offer",
                                 send_offer_req_id(our_offer_req_id),
                                 o = "ok"))
                   ELSE IF o = "noaddr"
                     THEN Append(trace, Step("no_addr", 0, FALSE))
                   ELSE trace
  /\ pc' = "wfn" /\ ctx' = "ack"
  /\ UNCHANGED <<sessVars, queueVars, op, ret, notif, last_known, cn_start,
                 offer, console_uid, socks, fds, selected, out_sock,
                 response,
                 readerVars, countVars>>

\* ------------------------------------------------------ check_candidates
MSG_TYPE_REQ == 6
MSG_TYPE_RESP == 7
ResponseLen == 88

\* datagrams recvfrom can deliver: len = -1 is a failed recvfrom, same_id
\* says whether the id at 0x48 is the request's
Responses ==
  { [len |-> ResponseLen, msg_type |-> MSG_TYPE_RESP, same_id |-> TRUE],
    [len |-> ResponseLen, msg_type |-> MSG_TYPE_RESP, same_id |-> FALSE],
    [len |-> ResponseLen, msg_type |-> MSG_TYPE_REQ, same_id |-> TRUE],
    [len |-> ResponseLen - 1, msg_type |-> MSG_TYPE_RESP, same_id |-> TRUE],
    [len |-> -1, msg_type |-> 0, same_id |-> FALSE] }

check_responseAnyId(resp) ==
  IF resp.len < 0 THEN "NETWORK"
  ELSE IF resp.len # ResponseLen THEN "NETWORK"
  ELSE IF resp.msg_type # MSG_TYPE_RESP THEN "UNKNOWN"
  ELSE "SUCCESS"

\* the checks on a received datagram
check_response(resp) ==
  IF resp.len < 0 THEN "NETWORK"
  ELSE IF resp.len # ResponseLen THEN "NETWORK"
  ELSE IF resp.msg_type # MSG_TYPE_RESP THEN "UNKNOWN"
  ELSE IF ~resp.same_id THEN "UNKNOWN"
  ELSE "SUCCESS"

\* cleanup_sockets: every socket that was opened and is not *out is closed
cleanup_sockets(sk, out) ==
  [i \in 1..Len(sk) |-> IF sk[i] = "open" /\ i # out THEN "closed" ELSE sk[i]]

\* check_candidates failed with err: session_punch_hole goes to cleanup
ProbeFail(sk, err) ==
  /\ socks' = sk /\ fds' = {} /\ selected' = 0
  /\ PunchCleanup(err)
  /\ UNCHANGED <<trace, out_sock>>

\* the end of check_candidates with a selected socket, then *out_sock = sock
ProbeDone(sel, getsockname_ok) ==
  IF getsockname_ok
    THEN /\ socks' = cleanup_sockets(socks, sel)
         /\ fds' = {} /\ selected' = 0
         /\ out_sock' = sel
         /\ trace' = Append(trace, Step("probe", 0, TRUE))
         /\ pc' = "send_accept"
         /\ UNCHANGED <<ret, waitVars, queueVars, offer>>
  ELSE ProbeFail(cleanup_sockets(socks, sel), "NETWORK")

SetupFailures == {"socket", "getaddrinfo", "bind", "send"}

\* one socket per candidate, bound and sent on
ProbeSetup ==
  /\ pc = "probe"
  /\ LET n == offer.ncand
         opened(k) == [i \in 1..n |-> IF i <= k THEN "open" ELSE "none"]
     IN \E o \in Outcomes({[kind |-> "ok", at |-> 0]},
                           {[kind |-> k, at |-> i] : k \in SetupFailures,
                                                     i \in 1..n},
                           faults) :
          /\ Fault(o.kind # "ok")
          /\ IF o.kind = "ok"
               THEN /\ socks' = opened(n) /\ fds' = 1..n /\ selected' = 0
                    /\ pc' = "probe_select"
                    /\ UNCHANGED <<ret, waitVars, queueVars, offer, trace,
                                   out_sock>>
             ELSE IF o.kind = "socket"
               THEN ProbeFail(opened(o.at - 1), "UNKNOWN")
             ELSE ProbeFail(cleanup_sockets(opened(o.at), 0),
                            IF o.kind = "getaddrinfo" THEN "UNKNOWN"
                            ELSE "NETWORK")
  /\ UNCHANGED <<sessVars, op, console_uid, client_sock, response,
                 readerVars, countVars>>

\* one round of the select loop; select leaves in fds the sockets that are
\* readable, and the next round waits on those only
ProbeSelect ==
  /\ pc = "probe_select"
  /\ \E o \in {[kind |-> "error", ready |-> {}],
               [kind |-> "timeout", ready |-> {}]}
              \cup {[kind |-> "ready", ready |-> R] :
                      R \in (SUBSET fds) \ {{}}} :
     \E resp \in (IF o.kind = "ready" THEN Responses
                  ELSE {r \in Responses : check_response(r) = "SUCCESS"}) :
     \E getsockname_ok \in
          (IF \/ o.kind = "timeout" /\ selected # 0
              \/ /\ o.kind = "ready" /\ check_response(resp) = "SUCCESS"
                 /\ offer.cands[SetMin(o.ready)].type = "LOCAL"
             THEN BOOLEAN ELSE {TRUE}) :
     LET bad == \/ o.kind = "error"
                \/ o.kind = "timeout" /\ (selected = 0 \/ ~getsockname_ok)
                \/ o.kind = "ready" /\ check_response(resp) # "SUCCESS"
     IN
     /\ bad => faults < MaxFaults
     /\ Fault(bad)
     /\ response' = IF o.kind = "ready" THEN resp ELSE response
     /\ IF o.kind = "error"
         THEN ProbeFail(cleanup_sockets(socks, 0), "NETWORK")
       ELSE IF o.kind = "timeout"
         THEN IF selected = 0
                THEN ProbeFail(cleanup_sockets(socks, 0), "TIMEOUT")
              ELSE ProbeDone(selected, getsockname_ok)
       ELSE LET i == SetMin(o.ready)
                e == check_response(resp)
            IN IF e # "SUCCESS"
                 THEN ProbeFail(cleanup_sockets(socks, 0), e)
               ELSE IF offer.cands[i].type = "LOCAL"
                 THEN ProbeDone(i, getsockname_ok)
               ELSE /\ selected' = i /\ fds' = o.ready
                    /\ UNCHANGED <<pc, ret, waitVars, queueVars, offer,
                                   trace, socks, out_sock>>
  /\ UNCHANGED <<sessVars, op, console_uid, client_sock, readerVars,
                 countVars>>

\* send_accept, then the start of the wait for the console's ACCEPT
SendAccept ==
  /\ pc = "send_accept"
  /\ \E r \in HttpResults(faults) :
       /\ Fault(r # "SUCCESS")
       /\ trace' = Append(trace, Step("tx_accept", accept_req_id,
                                      r = "SUCCESS"))
       /\ IF r = "SUCCESS"
            THEN /\ pc' = "wfn" /\ ctx' = "accept"
                 /\ UNCHANGED <<ret, notif, last_known, cn_start, queueVars,
                                offer>>
          ELSE PunchCleanup(r)
  /\ UNCHANGED <<sessVars, op, console_uid, sockVars, readerVars, countVars>>

\* --------------------------------------------------------- session_fini
\* notification_queue_free(session->ws_notification_queue): every cell met
\* on the walk is freed
notification_queue_free(h, hd) ==
  [i \in NodeIds |-> IF i \in Range(Queue(h, hd)) THEN Blank ELSE h[i]]

\* session_fini, called between two operations: it releases the share
\* handle, frees the queue, destroys the mutexes and condition variables.
\* It neither stops nor joins the websocket thread, and it leaves the queue
\* pointer as it is.  A queue whose walk meets a freed cell is freed twice.
CallFini ==
  /\ pc = "idle"
  /\ op' = [name |-> "fini", port |-> "NONE", uid |-> NoDuid]
  /\ share_cleanups' = share_cleanups + 1
  /\ heap' = notification_queue_free(heap, head)
  /\ LET c == Queue(heap, head)
     IN \E o \in (IF \E i \in 1..Len(c) : ~heap[c[i]].live
                    THEN {"crash", "garbage"} ELSE {"ok"}) :
          IF o = "crash"
            THEN /\ pc' = "crashed" /\ released' = <<"share">>
                 /\ UNCHANGED <<state_mutex, notif_mutex>>
          ELSE /\ pc' = "finished"
               /\ released' = <<"share">>
                    \o (IF head # NULL THEN <<"queue">> ELSE <<>>)
                    \o <<"sync">>
               /\ state_mutex' = "destroyed" /\ notif_mutex' = "destroyed"
  /\ UNCHANGED <<state, head, ret, waitVars, offer, trace, console_uid,
                 sockVars, readerVars, faults, nStartPosts, created, codec, hb,
                 elapsed>>

\* ---------------------------------------------------- websocket thread
\* the connect; WS_OPEN is set and signalled once the upgrade succeeded
ReaderConnect ==
  /\ rpc = "connect" /\ pc # "crashed"
  /\ \E o \in Outcomes({"ok"}, {"fail", "nosocket"}, faults) :
       /\ Fault(o # "ok")
       /\ IF o = "fail" THEN rpc' = "exited" /\ UNCHANGED state
          ELSE /\ state_mutex = "none"
               /\ state' = SetState(state, "WS_OPEN")
               /\ rpc' = IF o = "ok" THEN "loop" ELSE "exited"
  /\ UNCHANGED <<state_mutex, notif_mutex, queueVars, pc, op, ret, waitVars,
                 offer, trace, console_uid, sockVars, rx, should_stop,
                 envpos, countVars>>

\* a text frame arrives: parse, allocate, classify, answer an OFFER inside
\* the auto-ACK window
ReaderRecv ==
  /\ rpc = "loop" /\ ~should_stop /\ pc # "crashed" /\ envpos < MaxFrames
  /\ ServerReady(envpos + 1, pc \notin {"create_wait_ws", "create_join"},
                 state,
                 \E i \in 1..Len(trace) :
                   trace[i].step = "tx_offer" /\ trace[i].ok)
  /\ envpos' = envpos + 1
  /\ \E f \in FramesAt(envpos + 1, faults) :
     /\ Fault(f \notin NominalAt(envpos + 1))
     /\ IF ~f.parses THEN UNCHANGED <<heap, rx, rpc>>
       ELSE
         LET free == FreeCells(heap, {head, rx, notif, cn_start, offer.node,
                                      last_known})
             t == parse_notification_type(f)
             ack == should_ack_offers(state)
                    /\ t = "SESSION_MESSAGE_CREATED"
             m == session_message_parse(f)
         IN /\ state_mutex = "none"
            /\ free # {}
            /\ Cardinality({i \in NodeIds : heap[i].live}) < MaxLive
            /\ heap' = [heap EXCEPT ![SetMin(free)] =
                  [live |-> TRUE, type |-> t, previous |-> head,
                   json |-> f,
                   acks |-> IF ack /\ m.action = "OFFER" THEN 1 ELSE 0]]
            /\ rx' = SetMin(free)
            /\ rpc' = IF ack /\ m.err # "SUCCESS" THEN "discard"
                      ELSE "append"
  /\ UNCHANGED <<sessVars, head, pc, op, ret, waitVars, offer, trace,
                 console_uid, sockVars, should_stop, countVars>>

\* the notification becomes the head of the queue; waiters are signalled
ReaderAppend ==
  /\ rpc = "append" /\ notif_mutex = "none" /\ pc # "crashed"
  /\ head' = rx /\ rx' = NULL /\ rpc' = "loop"
  /\ heap' = Collect(heap, {rx, notif, cn_start, offer.node, last_known})
  /\ UNCHANGED <<sessVars, pc, op, ret, waitVars, offer, trace, console_uid,
                 sockVars, should_stop, envpos, faults, countVars>>

\* the session message could not be parsed for ACKing: the loop goes on
\* without appending the notification it built, which is never freed
ReaderDiscard ==
  /\ rpc = "discard" /\ pc # "crashed"
  /\ rx' = NULL /\ rpc' = "loop"
  /\ heap' = Collect(heap, {head, notif, cn_start, offer.node, last_known})
  /\ UNCHANGED <<sessVars, head, pc, op, ret, waitVars, offer, trace,
                 console_uid, sockVars, should_stop, envpos, faults,
                 countVars>>

\* the loop sees ws_thread_should_stop
ReaderStop ==
  /\ rpc = "loop" /\ should_stop /\ pc # "crashed"
  /\ rpc' = "exited"
  /\ UNCHANGED <<sessVars, queueVars, pc, op, ret, waitVars, offer, trace,
                 console_uid, sockVars, rx, should_stop, envpos, faults,
                 countVars>>

\* the connection breaks: receive error, missing PONG, CLOSE frame
ReaderFail ==
  /\ rpc = "loop" /\ ~should_stop /\ pc # "crashed"
  /\ faults < MaxFaults /\ Fault(TRUE)
  /\ rpc' = "exited"
  /\ UNCHANGED <<sessVars, queueVars, pc, op, ret, waitVars, offer, trace,
                 console_uid, sockVars, rx, should_stop, envpos, countVars>>

\* the websocket thread goes on after session_fini: it uses the released
\* share handle, locks a destroyed mutex or links a cell to the freed queue;
\* the process crashes or goes on with garbage
ReaderUseAfterFini ==
  /\ pc = "finished" /\ rpc \in {"connect", "loop", "append", "discard"}
  /\ rpc = "loop" => ~should_stop /\ envpos < MaxFrames
  /\ envpos' = IF rpc = "loop" THEN envpos + 1 ELSE envpos
  /\ rpc' = "uaf"
  /\ \E o \in {"crash", "garbage"} :
       pc' = IF o = "crash" THEN "crashed" ELSE pc
  /\ UNCHANGED <<sessVars, queueVars, op, ret, waitVars, offer, trace,
                 console_uid, sockVars, rx, should_stop, faults, countVars>>

\* ------------------------------------------------------- specification
Next ==
  \/ CallCreate \/ CreateSession \/ CreateJoin \/ CreateGot \/ CreateClear
  \/ WfnScan \/ WfnWake \/ WfnTimeout
  \/ CallStart \/ StartGot \/ StartClear
  \/ CallPunch \/ WsmParse \/ PhOffer \/ PhSendOffer
  \/ ProbeSetup \/ ProbeSelect \/ SendAccept
  \/ Resume \/ CallFini
  \/ ReaderConnect \/ ReaderRecv \/ ReaderAppend \/ ReaderDiscard
  \/ ReaderStop \/ ReaderFail
  \/ ReaderUseAfterFini

Spec == Init /\ [][Next]_vars

\* Scheduling: a thread that can take a step of its code takes it.  The
\* calls of the application, the frames of the server and the expiry of a
\* timed wait are not forced.
CallerStep ==
  \/ CreateSession \/ CreateJoin \/ CreateGot \/ CreateClear
  \/ WfnScan \/ WfnWake \/ StartGot \/ StartClear
  \/ WsmParse \/ PhOffer \/ PhSendOffer
  \/ ProbeSetup \/ ProbeSelect \/ SendAccept
ReaderStep ==
  ReaderConnect \/ ReaderAppend \/ ReaderDiscard \/ ReaderStop
FairSpec == Spec /\ WF_vars(CallerStep) /\ WF_vars(ReaderStep)

\* ------------------------------------------------ the codec on its own
\* a session message text is decoded, the decoded message is serialized,
\* and the serialized text is decoded again
sessionVars ==
  <<sessVars, queueVars, pc, op, ret, waitVars, offer, trace, console_uid,
    sockVars, readerVars, faults, nStartPosts, created, share_cleanups,
    released, elapsed>>

CodecInit ==
  /\ SessionInit /\ hb = NoHb
  /\ \E m \in WireMessages :
       codec = [NoCodec EXCEPT !.stage = "wire", !.text = WireText(m)]

CodecDecode ==
  /\ codec.stage = "wire"
  /\ codec' = [codec EXCEPT !.stage = "decoded", !.msg = Decode(codec.text)]
  /\ UNCHANGED <<sessionVars, hb>>

CodecSerialize ==
  /\ codec.stage = "decoded" /\ codec.msg.err = "SUCCESS"
  /\ LET r == session_message_serialize(codec.msg)
     IN codec' = [codec EXCEPT
                    !.stage = IF r.crash THEN "crashed" ELSE "serialized",
                    !.text2 = r.text]
  /\ UNCHANGED <<sessionVars, hb>>

CodecDecodeAgain ==
  /\ codec.stage = "serialized"
  /\ codec' = [codec EXCEPT !.stage = "redecoded",
                            !.msg2 = Decode(codec.text2)]
  /\ UNCHANGED <<sessionVars, hb>>

CodecNext == CodecDecode \/ CodecSerialize \/ CodecDecodeAgain
CodecSpec == CodecInit /\ [][CodecNext]_vars

\* ------------------------------------------- the heartbeat, on its own
\* the websocket thread enters its loop; last_ping_sent was never
\* initialised and holds any value
HbInit ==
  /\ SessionInit /\ codec = NoCodec
  /\ \E t \in 0..PingTicks, g \in 0..(ClockMod - 1) :
       hb = [NoHb EXCEPT !.stage = "top", !.now = t, !.last_ping_sent = g]

\* the top of the loop: the clock is read, the overdue PONG is checked,
\* a PING is sent when due
HbTop ==
  /\ hb.stage = "top"
  /\ LET h == heartbeat(hb.expecting_pong, hb.now, hb.last_ping_sent)
     IN \E sent \in (IF h = "ping" THEN BOOLEAN ELSE {TRUE}) :
          hb' = IF h = "exit" \/ ~sent
                  THEN [hb EXCEPT !.stage = "exited", !.did = h]
                ELSE IF h = "ping"
                  THEN [hb EXCEPT !.stage = "recv", !.did = h,
                                  !.last_ping_sent = hb.now,
                                  !.expecting_pong = TRUE]
                ELSE [hb EXCEPT !.stage = "recv", !.did = h]
  /\ UNCHANGED <<sessionVars, codec>>

\* curl_ws_recv, and select when nothing was there; time passes
HbRecv ==
  /\ hb.stage = "recv"
  /\ \E f \in WsEvents, d \in 0..(PingTicks + 1) :
       /\ hb.now + d <= MaxNow
       /\ hb' = [hb EXCEPT
                   !.stage = IF f \in {"close", "error"} THEN "exited"
                             ELSE "top",
                   !.now = hb.now + d,
                   !.expecting_pong = IF f = "pong" THEN FALSE
                                      ELSE hb.expecting_pong,
                   !.did = "none", !.frame = f]
  /\ UNCHANGED <<sessionVars, codec>>

HbNext == HbTop \/ HbRecv
HeartbeatSpec == HbInit /\ [][HbNext]_vars


\* ================================================================ claims
PunchReturned(r) == pc = "returned" /\ op.name = "punch" /\ ret = r

\* C1: when session_punch_hole returns SUCCESS, the ESTABLISHED bit of the
\* port kind it was called for is set (CTRL_ESTABLISHED for CTRL,
\* DATA_ESTABLISHED for DATA), and the console's ACCEPT was received in
\* that call.
C1_EstablishedBitOfPortKind ==
  PunchReturned("SUCCESS") =>
    /\ op.port = "CTRL" => "CTRL_ESTABLISHED" \in state
    /\ op.port = "DATA" => "DATA_ESTABLISHED" \in state
    /\ \E i \in 1..Len(trace) : trace[i].step = "rx_accept"

\* C2: a session_punch_hole call that returns SUCCESS has gone through the
\* steps in this order, each completed: console OFFER received; RESULT sent
\* with the OFFER's reqId; own OFFER sent; RESULT for the own OFFER
\* received; probe; own ACCEPT sent; console ACCEPT received.
C2_StepsInOrderAndCompleted ==
  PunchReturned("SUCCESS") =>
    /\ [i \in 1..Len(trace) |-> trace[i].step] =
         <<"rx_offer", "tx_result", "tx_offer", "rx_result", "probe",
           "tx_accept", "rx_accept">>
    /\ trace[2].req_id = trace[1].req_id
    /\ \A i \in 1..Len(trace) : trace[i].ok

\* C3: when session_create returns SUCCESS, CREATED and CLIENT_JOINED are
\* both set.
C3_CreateSuccessMeansCreatedAndJoined ==
  (pc = "returned" /\ op.name = "create" /\ ret = "SUCCESS") =>
    {"CREATED", "CLIENT_JOINED"} \subseteq state

\* C4: when session_start returns SUCCESS, CONSOLE_JOINED and
\* CUSTOMDATA1_RECEIVED are both set.
C4_StartSuccessMeansJoinedAndCustomData ==
  (pc = "returned" /\ op.name = "start" /\ ret = "SUCCESS") =>
    {"CONSOLE_JOINED", "CUSTOMDATA1_RECEIVED"} \subseteq state

\* C5: session state bits are monotonic: no step of any operation or of the
\* websocket thread clears a bit that is set.
C5_StateMonotonic == [][state \subseteq state']_vars

\* a session that went all the way to an established control connection
\* still has every bit set on the way
C5_Witness ==
  {"WS_OPEN", "CREATED", "CLIENT_JOINED", "DATA_SENT", "CONSOLE_JOINED",
   "CUSTOMDATA1_RECEIVED", "CTRL_OFFER_RECEIVED", "CTRL_ESTABLISHED"}
    \subseteq state

\* C6: when the bounded wait of session_create or session_start expires
\* before both notifications have arrived, the operation returns TIMEOUT.
C6_ExpiredWaitReturnsTimeout ==
  [][(pc = "wfn_wait" /\ ctx \in {"create", "start"} /\ pc' = "returned")
       => ret' = "TIMEOUT"]_vars

\* C7: session_punch_hole(CTRL) without CUSTOMDATA1_RECEIVED, and
\* session_punch_hole(DATA) without CTRL_ESTABLISHED, return an error at
\* once: no notification is consumed, no message is sent, no socket is
\* opened and the session state is unchanged.
C7_PunchPreconditionRejects ==
  [][(/\ pc = "idle" /\ op'.name = "punch"
      /\ \/ op'.port = "CTRL" /\ "CUSTOMDATA1_RECEIVED" \notin state
         \/ op'.port = "DATA" /\ "CTRL_ESTABLISHED" \notin state)
       => /\ pc' = "returned" /\ ret' = "UNKNOWN"
          /\ UNCHANGED <<state, head, heap, trace, client_sock, socks,
                         out_sock, state_mutex, notif_mutex>>]_vars

\* a DATA punch was turned down although the control preconditions hold and
\* a session message is waiting in the queue
C7_Witness ==
  /\ PunchReturned("UNKNOWN") /\ op.port = "DATA"
  /\ "CUSTOMDATA1_RECEIVED" \in state /\ "CTRL_ESTABLISHED" \notin state
  /\ head # NULL /\ heap[head].live
  /\ heap[head].type = "SESSION_MESSAGE_CREATED"
  /\ trace = <<>>

\* C8: session_start on a session without CREATED returns UNINITIALIZED:
\* no POST is issued, no console UID is recorded, the state is unchanged.
C8_StartRequiresCreated ==
  [][(pc = "idle" /\ op'.name = "start" /\ "CREATED" \notin state)
       => /\ pc' = "returned" /\ ret' = "UNINITIALIZED"
          /\ UNCHANGED <<state, console_uid, nStartPosts, head, heap,
                         state_mutex, notif_mutex>>]_vars

\* session_start was turned down on a session whose websocket is open but
\* whose creation was never confirmed
C8_Witness ==
  /\ pc = "returned" /\ op.name = "start" /\ ret = "UNINITIALIZED"
  /\ "WS_OPEN" \in state /\ "CREATED" \notin state
  /\ console_uid = NoDuid /\ nStartPosts = 0

\* C9: a session is started only once: once the start POST was issued the
\* session is STARTED, and no second POST is ever issued.
C9_StartedOnlyOnce ==
  /\ nStartPosts >= 1 => "STARTED" \in state
  /\ nStartPosts <= 1

\* C10: a CUSTOM_DATA1 notification whose customData1 has a length other
\* than 32 makes session_start return UNKNOWN, and CUSTOMDATA1_RECEIVED is
\* not set by it.
C10_BadCustomData1Length ==
  [][(/\ pc = "start_got" /\ state_mutex = "none" /\ heap[notif].live
      /\ heap[notif].type = "CUSTOM_DATA1_UPDATED"
      /\ heap[notif].json.cd.len >= 0 /\ heap[notif].json.cd.len # 32)
       => /\ pc' = "returned" /\ ret' = "UNKNOWN"
          /\ state' = state]_vars

\* C11: once session_punch_hole has taken the console's OFFER and gone past
\* the point where it records it, the OFFER_RECEIVED bit of the port kind it
\* was called with is set: CTRL_OFFER_RECEIVED for CTRL, DATA_OFFER_RECEIVED
\* for DATA.
C11_OfferReceivedBitOfPortKind ==
  (op.name = "punch" /\ \E i \in 1..Len(trace) : trace[i].step = "tx_result")
    => /\ op.port = "CTRL" => "CTRL_OFFER_RECEIVED" \in state
       /\ op.port = "DATA" => "DATA_OFFER_RECEIVED" \in state

\* C12: the OFFER session_punch_hole sends carries the request id it then
\* waits for (1), and a RESULT that echoes the reqId of the OFFER that was
\* sent satisfies the wait.
C12_OfferReqIdIsAwaited ==
  /\ \A i \in 1..Len(trace) :
       trace[i].step = "tx_offer" => trace[i].req_id = our_offer_req_id
  /\ (/\ pc = "wsm_parse" /\ ctx = "ack" /\ heap[notif].live
      /\ LET m == session_message_parse(heap[notif].json)
         IN /\ m.err = "SUCCESS" /\ m.action = "RESULT"
            /\ \E i \in 1..Len(trace) :
                 /\ trace[i].step = "tx_offer" /\ trace[i].ok
                 /\ trace[i].req_id = m.req_id)
       => session_message_parse(heap[notif].json).req_id = our_offer_req_id

\* C13: a session_punch_hole call that waits for the console's OFFER and
\* gets no session message returns TIMEOUT: as long as it has not taken a
\* message it comes to the timed wait, and the expiry of that wait makes it
\* return TIMEOUT with no socket opened, no message sent and no state bit
\* set.
C13_OfferWaitEndsInTimeout ==
  /\ (op.name = "punch" /\ ctx = "offer"
        /\ pc \in {"wfn", "wfn_spin", "wsm_parse"})
       ~> (pc \in {"wfn_wait", "ph_offer", "returned", "crashed"})
  /\ [][(op.name = "punch" /\ ctx = "offer" /\ pc = "wfn_wait"
          /\ pc' = "returned")
         => /\ ret' = "TIMEOUT"
            /\ UNCHANGED <<state, trace, client_sock, socks, out_sock>>]_vars

\* C14: when session_punch_hole returns an error, every socket it opened in
\* that call is closed: the probe sockets, an elected winner included, and
\* the socket bound for its own OFFER.
C14_FailedPunchClosesSockets ==
  (pc = "returned" /\ op.name = "punch" /\ ret # "SUCCESS")
    => /\ \A i \in 1..Len(socks) : socks[i] # "open"
       /\ (\E i \in 1..Len(trace) : trace[i].step = "tx_offer")
            => client_sock # "open"

\* C15: the candidate session_punch_hole elected and announced in its
\* ACCEPT is one of the candidates of the console OFFER taken in that call,
\* and decoding the OFFER kept every candidate as the console wrote it.
C15_AcceptedCandidateIsOffered ==
  (/\ op.name = "punch" /\ ctx = "accept" /\ out_sock # 0
   /\ offer.node # NULL /\ heap[offer.node].live)
    => LET offered == OfferCandidates(heap[offer.node].json.msg.ncand)
       IN /\ offer.cands = offered
          /\ offer.cands[out_sock] \in Range(offered)

\* C16: the winner rule of the probe.  The probe keeps waiting only after a
\* valid response on a STATIC candidate (a LOCAL one wins at once); while it
\* waits, the sockets of the LOCAL candidates are still watched, so that a
\* LOCAL response can replace the STATIC winner; and a STATIC candidate wins
\* only as the standing winner when the wait expires.
C16_ProbeWinnerRule ==
  [][LET offered == OfferCandidates(offer.ncand)
     IN /\ (pc = "probe_select" /\ pc' = "probe_select" /\ selected' # 0)
             => /\ offered[selected'].type = "STATIC"
                /\ \A j \in 1..Len(socks) :
                     (socks[j] = "open" /\ offered[j].type = "LOCAL")
                       => j \in fds'
        /\ (pc = "probe_select" /\ pc' = "send_accept")
             => \/ offered[out_sock'].type = "LOCAL"
                \/ selected = out_sock']_vars

C18_NoExternalAddressAborts ==
  [][(/\ pc = "ph_send_offer" /\ Len(trace') = Len(trace) + 1
      /\ trace'[Len(trace')].step = "no_addr")
       => pc' = "returned" /\ ret' = "UNKNOWN"]_vars

\* C19: session_create returns in every execution in which the threads are
\* scheduled fairly; in particular its wait for WS_OPEN ends, also when the
\* websocket thread fails to connect and exits.
C19_CreateWaitForWsOpenEnds ==
  (op.name = "create" /\ pc = "create_wait_ws") ~> (pc # "create_wait_ws")

\* C20: session_fini releases in the order stop the websocket thread, join
\* it, free the notification queue, destroy the mutexes and condition
\* variables, release the share handle; so once session_fini has released
\* anything the websocket thread has exited and never uses what was
\* released.
C20_FiniStopsReaderFirst ==
  released # <<>>
    => /\ rpc \in {"none", "exited"}
       /\ \A i, j \in 1..Len(released) :
            (released[i] = "share" /\ released[j] # "share") => j < i

\* C21: when session_create returns after a notification of a kind other
\* than SESSION_CREATED and MEMBER_CREATED was received during its wait
\* (such a notification is never cleared, so it is still in the queue), it
\* returns UNKNOWN.
C21_UnexpectedKindAbortsCreate ==
  (/\ op.name = "create" /\ pc = "returned"
   /\ \E i \in Range(Queue(heap, head)) :
        heap[i].live /\ heap[i].type \notin WantedTypes("create"))
    => ret = "UNKNOWN"

\* C22: for every session message text that decodes successfully, the
\* decoded message can be serialized, and decoding the serialization gives
\* a message equal to the decoded one.
C22_CodecRoundTrip ==
  /\ codec.stage # "crashed"
  /\ codec.stage = "redecoded" => codec.msg2 = codec.msg

\* C23: a text whose "localPeerAddr" key is followed at once by a comma is
\* patched to the same text with {} after the colon, and then decodes
\* successfully to the fields of the message.
C23_LocalPeerAddrPatched ==
  \A m \in WireMessages :
    (/\ codec.stage = "decoded" /\ m.conn.lpa = "missing"
     /\ codec.text = WireText(m))
      => LET fixed == [m EXCEPT !.conn.lpa = "empty"]
         IN /\ PayloadText(codec.text) = WireText(fixed)
            /\ codec.msg.err = "SUCCESS"
            /\ codec.msg = Decode(WireText(fixed))

\* C24: a wait for a session message always ends: from any point of the
\* scan-and-parse loop the caller reaches the timed wait or leaves the loop
\* with a message; and a message whose action or reqId is not the awaited
\* one is out of the queue once it was skipped.
C24_SessionMessageWaitEnds ==
  /\ \A c \in {"offer", "ack", "accept"} :
       (ctx = c /\ pc \in {"wfn", "wfn_spin", "wsm_parse"})
         ~> (pc \notin {"wfn", "wfn_spin", "wsm_parse"})
  /\ [][(pc = "wsm_parse" /\ pc' = "wfn")
          => notif \notin Range(Queue(heap', head'))]_vars

\* C25: wait_for_notification returns TIMEOUT once timeout_ms have elapsed
\* since the call started: when the wait expires, the time elapsed since
\* the call started is the budget, however many notifications that did not
\* match woke the caller in between.
C25_TimeoutBoundsTotalWait ==
  [][(pc = "wfn_wait" /\ pc' = "returned") => elapsed' = TimeoutTicks]_vars

C27_OldestFirst ==
  (/\ pc \in {"create_got", "start_got", "wsm_parse"}
   /\ notif # NULL /\ heap[notif].live)
    => \A i \in Range(Queue(heap, heap[notif].previous)) :
         ~(heap[i].live /\ heap[i].type \in WantedTypes(ctx))

\* C28: the RESULT the websocket thread sends by itself for an OFFER reads,
\* on the wire, as a RESULT with the reqId of that OFFER, error 0 and a
\* connection request without candidates; and the handling of that OFFER
\* changes no bit of the session state.
C28_AutoAckContent ==
  [][(rpc = "loop" /\ rpc' = "append" /\ heap'[rx'].acks = 1)
       => /\ state' = state
          /\ LET sent == session_message_serialize(
                           ack_msg(heap'[rx'].json.msg.reqId))
                 read == Decode(sent.text)
             IN /\ ~sent.crash /\ read.err = "SUCCESS"
                /\ read.action = "RESULT"
                /\ read.req_id = heap'[rx'].json.msg.reqId
                /\ read.error = 0
                /\ read.conn_request.num_candidates = 0]_vars

\* C29: the notification the websocket thread builds from a frame that
\* parses as JSON leaves its hands only by becoming the head of the queue,
\* in which it was not before: whatever its kind and whatever the auto-ACK
\* step does, a parsed frame is appended exactly once.
C29_ParsedFrameAppendedOnce ==
  [][(rx # NULL /\ rx' = NULL)
       => /\ head' = rx
          /\ rx \notin Range(Queue(heap, head))]_vars

\* C30: however an append of the websocket thread and a clear_notification
\* of the caller interleave, the queue afterwards holds exactly what was
\* appended and not cleared: an append adds the new notification to the
\* notifications the queue held, a clear takes out the cleared one and no
\* other, and no cell of the queue is a freed one.
C30_QueueAppendedNotCleared ==
  [][LET q == Range(Queue(heap, head))
         q2 == Range(Queue(heap', head'))
     IN /\ (rpc = "append" /\ rpc' = "loop")
             => q2 = q \cup {rx} /\ \A i \in q2 : heap'[i].live
        /\ (pc \in {"create_clear", "start_clear"} /\ pc' # pc)
             => /\ q2 = q \ {notif}
                /\ \A i \in q2 : heap'[i].live]_vars

\* C31: no thread owns the state mutex and the notification mutex at the
\* same time: no state has both owned by the caller, and the steps in which
\* the caller takes the notification mutex (the scan and the waits of
\* wait_for_notification, clear_notification) are taken without the state
\* mutex.
C31_MutexesNeverBothHeld ==
  [][/\ ~(state_mutex' = "caller" /\ notif_mutex' = "caller")
     /\ (/\ pc \in {"wfn", "wfn_wait", "wfn_spin", "create_clear",
                    "start_clear"}
         /\ pc' # pc)
          => state_mutex # "caller"]_vars

\* C32: check_candidates elects a candidate only in a round in which the
\* datagram it received has msg_type 7 (RESP) and carries the request id of
\* its own requests; a datagram that fails a check ends the probe with an
\* error, and no socket is handed out.
C32_ElectsOnlyOnValidResponse ==
  [][LET valid == /\ response'.len = ResponseLen
                  /\ response'.msg_type = MSG_TYPE_RESP
                  /\ response'.same_id
         elected == \/ pc' = "probe_select" /\ selected' # 0
                    \/ pc' = "send_accept" /\ selected = 0
     IN pc = "probe_select"
          => /\ elected => valid
             /\ (response' # NoResponse /\ ~valid)
                  => /\ pc' = "returned"
                     /\ ret' \in {"UNKNOWN", "NETWORK"}
                     /\ out_sock' = out_sock]_vars

\* a candidate was elected on a RESP datagram with the request's id, and
\* the probe goes on waiting for a local candidate
C32_Witness ==
  /\ pc = "probe_select" /\ selected # 0
  /\ response.msg_type = MSG_TYPE_RESP /\ response.same_id

\* C33: when check_candidates returns SUCCESS exactly one of the sockets it
\* opened is still open, the one handed to the caller; when it returns an
\* error none of them is still open.
C33_ProbeSocketOwnership ==
  [][LET stillOpen == { i \in 1..Len(socks') : socks'[i] = "open" }
     IN pc \in {"probe", "probe_select"}
          => /\ (pc' = "send_accept") => (stillOpen = {out_sock'})
             /\ (pc' = "returned") => (stillOpen = {})]_vars

\* C34: the websocket thread sends a PING only when no earlier PING is
\* still unanswered; a PONG it receives clears the pending-PONG flag; and
\* when a PING has been unanswered for more than 5 s at the top of the loop,
\* the loop is left and no further PING is sent.
C34_Heartbeat ==
  [][/\ (hb.stage = "top" /\ hb'.did = "ping") => ~hb.expecting_pong
     /\ (hb.stage = "recv" /\ hb'.frame = "pong") => ~hb'.expecting_pong
     /\ (/\ hb.stage = "top" /\ hb.expecting_pong
         /\ Since(hb.now, hb.last_ping_sent) > PingTicks)
          => /\ hb'.stage = "exited" /\ hb'.did = "exit"
             /\ hb'.last_ping_sent = hb.last_ping_sent]_vars

\* the thread has left its loop because its PING stayed unanswered
C34_Witness ==
  /\ hb.stage = "exited" /\ hb.did = "exit" /\ hb.expecting_pong

\* C35: no operation returns with the state mutex locked: whenever
\* session_create or session_start has returned, on whatever path, the
\* state mutex is free for the websocket thread and for later calls.
C35_ReturnsWithStateMutexFree ==
  (pc = "returned" /\ op.name \in {"create", "start"})
    => state_mutex # "caller"

\* C36: a notification of the queue that is freed (by clear_notification, or
\* by session_message_free of a consumed session message) is unlinked in
\* the same step: afterwards it is not reachable from the head, and the
\* notifications older than it still are; so every notification reachable
\* from the head is live.
C36_FreedNotificationUnlinked ==
  [][LET freed ==
           IF pc \in {"create_clear", "start_clear"} /\ pc' # pc
             THEN notif
           ELSE IF pc = "wsm_parse" /\ ctx = "ack" /\ pc' = "probe"
             THEN notif
           ELSE IF op.name = "punch" /\ pc # "returned" /\ pc' = "returned"
             THEN offer.node
           ELSE NULL
     IN (/\ freed # NULL /\ heap[freed].live
         /\ freed \in Range(Queue(heap, head)))
          => /\ freed \notin Range(Queue(heap', head'))
             /\ Range(Queue(heap, heap[freed].previous))
                  \subseteq Range(Queue(heap', head'))]_vars

\* C37: an OFFER the websocket thread has answered itself is never taken
\* from the queue by session_punch_hole as the console's OFFER, to be
\* answered a second time.
C37_OfferAnsweredOnce ==
  [][(pc = "wsm_parse" /\ ctx = "offer" /\ pc' = "ph_offer")
       => heap[notif].acks = 0]_vars

\* C38: the control-port exchange is started only for a session the
\* requested console has joined: CTRL_OFFER_RECEIVED implies
\* CONSOLE_JOINED.
C38_CtrlOfferImpliesConsoleJoined ==
  "CTRL_OFFER_RECEIVED" \in state => "CONSOLE_JOINED" \in state

\* C39: the bits that are set respect the order of the phases:
\* CTRL_ESTABLISHED implies CTRL_OFFER_RECEIVED, which implies
\* CUSTOMDATA1_RECEIVED, which implies DATA_SENT, which implies CREATED,
\* which implies WS_OPEN.
C39_PhaseOrder ==
  /\ "CTRL_ESTABLISHED" \in state => "CTRL_OFFER_RECEIVED" \in state
  /\ "CTRL_OFFER_RECEIVED" \in state => "CUSTOMDATA1_RECEIVED" \in state
  /\ "CUSTOMDATA1_RECEIVED" \in state => "DATA_SENT" \in state
  /\ "DATA_SENT" \in state => "CREATED" \in state
  /\ "CREATED" \in state => "WS_OPEN" \in state

\* the control connection is established: every bit of the chain is set
C39_Witness ==
  /\ "CTRL_ESTABLISHED" \in state /\ "WS_OPEN" \in state

\* C40: the share handle of the HTTP connections is released exactly once
\* in the lifetime of a session: curl_share_cleanup is never called a
\* second time, also when a failed session_create is followed by
\* session_fini, and the websocket thread does not go on after the release.
C40_ShareReleasedOnce ==
  /\ share_cleanups <= 1
  /\ rpc # "uaf"

====
